---------------------------- MODULE Spec2Model ----------------------------
(***************************************************************************)
(* State-machine model of the SVG full-page renderer                       *)
(* (src/src/renderer.js, first definition, lines 23-287) and of the        *)
(* POST /render handler of the fallback server                             *)
(* (src/examples/fallback-server.js, lines 67-129).                        *)
(*                                                                         *)
(* One action is one run-to-completion segment of JavaScript: the code     *)
(* between two awaits.  The awaited engine and filesystem operations are   *)
(* the environment; each settles either way (Outcomes).                    *)
(*                                                                         *)
(* Lengths are fixed-point: one CSS pixel is SubPixel units, so that       *)
(* Math.ceil and Math.max(x, 1) act on fractional values.                  *)
(***************************************************************************)
EXTENDS Integers, Sequences, FiniteSets, TLC

\* ------------------------------------------------------------------ bounds

\* Number of render calls (HTTP requests or library calls) that may overlap.
MaxCalls == 2
\* The milliseconds that pass in a run.
MaxClock == 2
\* The requests other than POST /render that the server gets in a run.
MaxRequests == 4

\* Units per CSS pixel of the fixed-point lengths.
SubPixel == 2

\* The page's viewport before the renderer resizes it, in pixels.  The
\* renderer never sets it before measuring (renderer.js 107-170), so it is
\* whatever the engine starts a page with.
InitViewportW == 3
InitViewportH == 2

\* ------------------------------------------------------- program constants

DefaultWidth == 300
DefaultHeight == 150
DefaultScale == 2
DefaultTimeout == 30000
\* quality is fixed-point in thousandths: 1000 is the JavaScript number 1.
QualityOne == 1000

Calls == 1..MaxCalls

Px(n) == n * SubPixel
\* A length strictly between 0 and 1 pixel.
Frac == 1

Min(a, b) == IF a <= b THEN a ELSE b
Max(a, b) == IF a >= b THEN a ELSE b

\* ------------------------------------------------------------ JS values

\* A JSON field value: absent (undefined), a string, or a number.  Strings
\* are sequences of one-character strings; svg text is held parsed (doc).
Absent == [kind |-> "absent", s |-> << >>, n |-> 0]
Str(s) == [kind |-> "string", s |-> s, n |-> 0]
Num(n) == [kind |-> "number", s |-> << >>, n |-> n]

\* An element of markup, in document order, with its attributes in text
\* order; an attribute value is a number in fixed-point units.
El(tag, attrs) == [tag |-> tag, attrs |-> attrs]
At(name, v) == [name |-> name, v |-> v]

\* <svg width="2" height="1">
DocSmall == << El("svg", << At("width", Px(2)), At("height", Px(1)) >>) >>
\* <svg width="1.5" height="0.5">
DocFrac == << El("svg", << At("width", Px(1) + Frac), At("height", Frac) >>) >>
\* an svg larger than the initial viewport in both directions
DocWide == << El("svg", << At("width", Px(InitViewportW + 2)),
                           At("height", Px(InitViewportH + 1)) >>) >>
\* <svg width="0" height="1.5">
DocZero == << El("svg", << At("width", 0), At("height", Px(1) + Frac) >>) >>
\* <div width="3"><svg width="1" height="1"></svg></div>
DocNested == << El("div", << At("width", Px(3)) >>),
                El("svg", << At("width", Px(1)), At("height", Px(1)) >>) >>
\* <p></p>
DocNoSvg == << El("p", << >>) >>
\* <svg stroke-width="3" width="2" height="1">
DocStroke == << El("svg", << At("stroke-width", Px(3)), At("width", Px(2)),
                             At("height", Px(1)) >>) >>
\* <svg width="2">
DocNoHeight == << El("svg", << At("width", Px(2)) >>) >>

\* An svg field: absent, text (possibly empty), or a JSON number.
SvgAbsent == [kind |-> "absent", doc |-> << >>, n |-> 0]
SvgText(d) == [kind |-> "string", doc |-> d, n |-> 0]
SvgNum(n) == [kind |-> "number", doc |-> << >>, n |-> n]

\* JavaScript truthiness of an svg value (the test !svg, line 89).
Truthy(v) ==
  \/ v.kind = "string" /\ v.doc # << >>
  \/ v.kind = "number" /\ v.n # 0

\* JavaScript truthiness of a field value.
TruthyField(v) ==
  \/ v.kind = "string" /\ v.s # << >>
  \/ v.kind = "number" /\ v.n # 0

\* ------------------------------------------------- built-ins the code uses

\* String.prototype.toLowerCase on one character.
LowerChar(ch) ==
  CASE ch = "P" -> "p" [] ch = "N" -> "n" [] ch = "G" -> "g"
    [] ch = "J" -> "j" [] ch = "E" -> "e" [] ch = "W" -> "w"
    [] ch = "B" -> "b" [] ch = "I" -> "i" [] ch = "F" -> "f"
    [] OTHER -> ch

ToLowerCase(s) == [i \in DOMAIN s |-> LowerChar(s[i])]

Digits == <<"0", "1", "2", "3", "4", "5", "6", "7", "8", "9">>
IsDigit(ch) == \E d \in DOMAIN Digits : Digits[d] = ch
DigitValue(ch) == (CHOOSE d \in DOMAIN Digits : Digits[d] = ch) - 1

\* String(v) for a string or a one-digit number.
JsString(v) == IF v.kind = "string" THEN v.s ELSE << Digits[v.n + 1] >>

\* A JavaScript number that may be NaN.
NaN == [nan |-> TRUE, n |-> 0]
Finite(n) == [nan |-> FALSE, n |-> n]

RECURSIVE DigitsValue(_)
DigitsValue(s) ==
  IF s = << >> THEN 0
  ELSE 10 * DigitsValue(SubSeq(s, 1, Len(s) - 1)) + DigitValue(s[Len(s)])

\* Number(v), with the result in the field's fixed-point unit: a number is
\* itself, "" is 0, a string of digits is its value, any other string NaN.
ToNumber(v, unit) ==
  CASE v.kind = "number" -> Finite(v.n)
    [] v.kind = "string" ->
         IF \A i \in DOMAIN v.s : IsDigit(v.s[i])
         THEN Finite(DigitsValue(v.s) * unit)
         ELSE NaN
    [] OTHER -> NaN

\* Math.ceil on a fixed-point length: the least whole pixel not below x.
Ceil(x) == ((x + SubPixel - 1) \div SubPixel) * SubPixel

\* --------------------------------------------------- extractSvgDimensions

\* The attributes of the markup in text order.
RECURSIVE Tokens(_)
Tokens(doc) ==
  IF doc = << >> THEN << >> ELSE Head(doc).attrs \o Tokens(Tail(doc))

\* The attribute names in which the unanchored pattern key="?(\d+...) finds
\* its literal prefix: the name itself and the names that end in it.
MatchingNames(key) ==
  IF key = "width" THEN {"width", "stroke-width"} ELSE {"height", "line-height"}

\* String.prototype.match of the pattern: the first occurrence in the text,
\* as a one-element sequence holding parseFloat of the capture, or << >>.
RECURSIVE FirstMatch(_, _)
FirstMatch(tokens, key) ==
  IF tokens = << >> THEN << >>
  ELSE IF Head(tokens).name \in MatchingNames(key) THEN << Head(tokens).v >>
  ELSE FirstMatch(Tail(tokens), key)

extractSvgDimensions(doc) ==
  LET widthMatch == FirstMatch(Tokens(doc), "width")
      heightMatch == FirstMatch(Tokens(doc), "height")
  IN [width |-> IF widthMatch # << >> THEN widthMatch[1] ELSE Px(DefaultWidth),
      height |-> IF heightMatch # << >> THEN heightMatch[1] ELSE Px(DefaultHeight)]

\* ------------------------------------------------------ the loaded page

\* A variant that looks at the document root only.
RootSvgOnly(doc) == IF doc[1].tag = "svg" THEN 1 ELSE 0
\* document.querySelector('svg'): the index of the first svg element in
\* document order, 0 when there is none.
QuerySelectorSvg(doc) ==
  IF \E i \in DOMAIN doc : doc[i].tag = "svg"
  THEN CHOOSE i \in DOMAIN doc :
         doc[i].tag = "svg" /\ \A j \in DOMAIN doc : doc[j].tag = "svg" => i <= j
  ELSE 0

\* Whether element el has the attribute name.
HasAttr(el, name) == \E k \in DOMAIN el.attrs : el.attrs[k].name = name

\* The length the layout takes from attribute name of el: the attribute's
\* value, and the default size of a replaced element (300 by 150) when el
\* has no such attribute.
AttrValue(el, name) ==
  IF HasAttr(el, name)
  THEN LET i == CHOOSE k \in DOMAIN el.attrs :
                  el.attrs[k].name = name
                  /\ \A j \in DOMAIN el.attrs : el.attrs[j].name = name => k <= j
       IN el.attrs[i].v
  ELSE IF name = "width" THEN Px(DefaultWidth) ELSE Px(DefaultHeight)

\* The style sheet of the HTML shell: svg { max-width: 100vw; max-height:
\* 100vh }.  An svg element's used width is its width attribute limited to
\* the viewport's width at the time of layout; likewise its height.
UsedLength(attr, viewportLength) == Min(attr, viewportLength)

\* svg.getBoundingClientRect() of element el laid out in viewport vp.
BoundingClientRect(el, vp) ==
  [width |-> UsedLength(AttrValue(el, "width"), vp.width),
   height |-> UsedLength(AttrValue(el, "height"), vp.height)]

\* A variant that returns the rectangle as measured.
RawBox(rect) == rect
\* The value page.evaluate returns (lines 174-178).
MeasuredBox(rect) ==
  [width |-> Max(rect.width, Px(1)), height |-> Max(rect.height, Px(1))]

\* ------------------------------------------------------------ requests

Png == <<"p", "n", "g">>
Jpeg == <<"j", "p", "e", "g">>
Webp == <<"w", "e", "b", "p">>

\* A POST /render request: the multipart file part named svg (req.file) and
\* the body fields.  A body may carry fields the handler never reads, such
\* as timeoutMs.
Http(file, svg, outputType, quality, scale, timeout) ==
  [origin |-> "http", file |-> file, svg |-> svg, outputType |-> outputType,
   quality |-> quality, deviceScaleFactor |-> scale, timeout |-> timeout,
   timeoutMs |-> Absent, outputPath |-> Absent]

\* A direct call renderSvgFullPage(svg, options).
Lib(svg, outputType, quality, scale, outputPath) ==
  [origin |-> "lib", file |-> SvgAbsent, svg |-> svg, outputType |-> outputType,
   quality |-> quality, deviceScaleFactor |-> scale, timeout |-> Absent,
   timeoutMs |-> Absent, outputPath |-> outputPath]

NoReq ==
  [origin |-> "none", file |-> SvgAbsent, svg |-> SvgAbsent, outputType |-> Absent,
   quality |-> Absent, deviceScaleFactor |-> Absent, timeout |-> Absent,
   timeoutMs |-> Absent, outputPath |-> Absent]

Body(svg) == Http(SvgAbsent, svg, Absent, Absent, Absent, Absent)
Typed(t) == Http(SvgAbsent, SvgText(DocSmall), Str(t), Absent, Absent, Absent)

\* A jpeg request for DocSmall with the given quality, deviceScaleFactor and
\* timeout fields.
Options(quality, scale, timeout) ==
  Http(SvgAbsent, SvgText(DocSmall), Str(Jpeg), quality, scale, timeout)

\* The shapes of the numeric fields: numbers in and out of range, zero,
\* negative, numeric and non-numeric strings; and the field timeoutMs.
OptionRequests ==
  { Options(Num(0), Num(0), Num(0)),
    Options(Num(QualityOne), Num(1), Num(7)),
    Options(Num(2 * QualityOne), Num(-1), Num(-1)),
    Options(Num(-QualityOne), Str(<<"3">>), Str(<<"7">>)),
    Options(Str(<<"x">>), Str(<<"x">>), Str(<<"x">>)),
    Options(Str(<< >>), Str(<< >>), Str(<< >>)),
    [Options(Absent, Absent, Absent) EXCEPT !.timeoutMs = Num(7)],
    [Options(Absent, Absent, Num(5)) EXCEPT !.timeoutMs = Num(7)] }

\* Requests that differ in their jpeg quality only: 0, 0.5 and 1.
QualityLevels == {0, QualityOne \div 2, QualityOne}
QualityRequests == { Options(Num(q), Absent, Absent) : q \in QualityLevels }

\* The requests the model draws from: the shapes of the svg field and file
\* part, the shapes of outputType, the documents, and differing options.
HttpRequests ==
  { Body(SvgAbsent), Body(SvgText(<< >>)), Body(SvgNum(0)), Body(SvgNum(123)),
    Http(SvgText(<< >>), SvgAbsent, Absent, Absent, Absent, Absent),
    Http(SvgText(DocNested), SvgText(DocSmall), Absent, Absent, Absent, Absent),
    Body(SvgText(DocSmall)), Body(SvgText(DocZero)), Body(SvgText(DocNoSvg)),
    Body(SvgText(DocStroke)), Body(SvgText(DocNoHeight)),
    Typed(<<"P", "N", "G">>), Typed(<< >>), Typed(<<"g", "i", "f">>),
    Typed(<<"G", "I", "F">>), Typed(<<"J", "p", "e", "g">>),
    Http(SvgAbsent, SvgAbsent, Str(<<"g", "i", "f">>), Absent, Absent, Absent),
    Http(SvgAbsent, SvgText(DocFrac), Str(Jpeg), Num(500), Num(3), Absent),
    Http(SvgAbsent, SvgText(DocWide), Str(Webp), Absent, Num(1), Num(5)) }
  \cup OptionRequests

LibCalls ==
  { Lib(SvgText(DocSmall), Str(Jpeg), Num(500), Num(3), Str(<<"o">>)),
    Lib(SvgText(DocSmall), Absent, Absent, Absent, Absent) }

\* The requests drawn from when calls overlap: one the handler rejects and
\* two it renders, with different svg, outputType and deviceScaleFactor.
OverlappingRequests ==
  { Typed(<<"g", "i", "f">>),
    Http(SvgAbsent, SvgText(DocFrac), Str(Jpeg), Num(500), Num(3), Absent),
    Http(SvgAbsent, SvgText(DocWide), Str(Webp), Absent, Num(1), Num(5)) }

\* -------------------------------------------------------------- results

NoBox == [width |-> 0, height |-> 0]
NoViewport == [width |-> 0, height |-> 0, deviceScaleFactor |-> 0]
NoDoc == << El("", << >>) >>

\* An image: what was captured (the page's document), its encoding and its
\* size in physical pixels.  quality is -1 when none was passed.
NoBuffer ==
  [doc |-> NoDoc, type |-> << >>, quality |-> -1, width |-> 0, height |-> 0,
   length |-> 0]

Error(name, message) == [name |-> name, message |-> message]
NoError == Error("", "")

NoOutcome ==
  [kind |-> "none", buffer |-> NoBuffer, width |-> 0, height |-> 0,
   format |-> << >>, path |-> Absent, error |-> NoError]
Thrown(e) == [NoOutcome EXCEPT !.kind = "error", !.error = e]
Returned(buffer, width, height, format, path) ==
  [kind |-> "result", buffer |-> buffer, width |-> width, height |-> height,
   format |-> format, path |-> path, error |-> NoError]

\* The renderer's arguments.
NoArgs ==
  [svg |-> SvgAbsent, outputType |-> Absent, quality |-> Absent,
   deviceScaleFactor |-> Absent, timeout |-> Absent, outputPath |-> Absent]

\* An HTTP response: status, headers, and the body (an image, or JSON with the
\* fields error and type, each present or not).
Response(status) ==
  [status |-> status, contentType |-> << >>, imageWidth |-> 0, imageHeight |-> 0,
   imageFormat |-> << >>, hasImageHeaders |-> FALSE, body |-> NoBuffer,
   hasError |-> FALSE, error |-> "", hasType |-> FALSE, type |-> ""]

\* ---------------------------------------------- POST /render: the fields

\* Lines 69-70.
hasFile(r) == r.file.kind = "string"
SvgOf(r) == IF hasFile(r) THEN r.file ELSE r.svg

\* A variant that compares outputType as it was sent.
OutputTypeAsGiven(r) ==
  IF TruthyField(r.outputType) THEN JsString(r.outputType) ELSE Png
\* Line 71.
OutputTypeOf(r) ==
  IF TruthyField(r.outputType) THEN ToLowerCase(JsString(r.outputType)) ELSE Png

\* typeof v !== 'undefined' ? Number(v) : NaN
Parsed(v, unit) == IF v.kind # "absent" THEN ToNumber(v, unit) ELSE NaN

\* Lines 73-76.
QualityOf(r) ==
  LET parsedQuality == Parsed(r.quality, QualityOne)
  IN IF ~parsedQuality.nan THEN parsedQuality.n ELSE QualityOne

\* A variant that keeps every finite value.
ScaleUnchecked(r) ==
  LET parsedScale == Parsed(r.deviceScaleFactor, 1)
  IN IF ~parsedScale.nan THEN parsedScale.n ELSE DefaultScale
\* Lines 78-81.
ScaleOf(r) ==
  LET parsedScale == Parsed(r.deviceScaleFactor, 1)
  IN IF ~parsedScale.nan /\ parsedScale.n > 0 THEN parsedScale.n ELSE DefaultScale

\* A variant that reads the field timeoutMs.
TimeoutMsOf(r) ==
  LET parsedTimeout == Parsed(r.timeoutMs, 1)
  IN IF ~parsedTimeout.nan /\ parsedTimeout.n > 0 THEN parsedTimeout.n ELSE DefaultTimeout
\* Lines 83-86.
TimeoutOf(r) ==
  LET parsedTimeout == Parsed(r.timeout, 1)
  IN IF ~parsedTimeout.nan /\ parsedTimeout.n > 0 THEN parsedTimeout.n ELSE DefaultTimeout

SupportedTypes == {Png, Jpeg, Webp}

\* Line 89: if (!svg) is false.
SvgPresent(svg) == Truthy(svg)

\* A variant that accepts every outputType.
AnyOutputType(outputType) == TRUE
\* Line 95.
ValidOutputType(outputType) == outputType \in SupportedTypes

\* The options object of the call at lines 104-109.
HandlerArgs(r) ==
  [svg |-> SvgOf(r), outputType |-> Str(OutputTypeOf(r)), quality |-> Num(QualityOf(r)),
   deviceScaleFactor |-> Num(ScaleOf(r)), timeout |-> Num(TimeoutOf(r)),
   outputPath |-> Absent]

LibArgs(r) ==
  [svg |-> r.svg, outputType |-> r.outputType, quality |-> r.quality,
   deviceScaleFactor |-> r.deviceScaleFactor, timeout |-> r.timeout,
   outputPath |-> r.outputPath]

\* The convenience functions and the outputType each one fixes.
Wrappers == {"svgToPng", "svgToJpeg", "svgToWebp"}
FixedType(wrapper) ==
  IF wrapper = "svgToPng" THEN Png ELSE IF wrapper = "svgToJpeg" THEN Jpeg ELSE Webp

\* A variant that spreads the caller's options over the fixed outputType.
CallerTypeWins(r, wrapper) ==
  [LibArgs(r) EXCEPT !.outputType = IF r.outputType.kind = "absent"
                                    THEN Str(FixedType(wrapper)) ELSE r.outputType]

\* { ...options, outputType: 'png' }: the caller's options with outputType
\* replaced.
WrapperArgs(r, wrapper) ==
  [LibArgs(r) EXCEPT !.outputType = Str(FixedType(wrapper))]

\* Lines 90-92 and 96-98: the body has the field error only.
Rejection(message) ==
  [Response(400) EXCEPT !.hasError = TRUE, !.error = message]

\* Lines 112-121.
Success(result) ==
  [Response(200) EXCEPT !.contentType = <<"image/">> \o result.format,
                        !.imageWidth = result.width,
                        !.imageHeight = result.height,
                        !.imageFormat = result.format,
                        !.hasImageHeaders = TRUE,
                        !.body = result.buffer]

\* Lines 124-127.
Failure(error) ==
  [Response(500) EXCEPT !.hasError = TRUE, !.error = error.message,
                        !.hasType = TRUE, !.type = error.name]

\* A variant whose error path runs after the success path has responded.
ResponsesUnguarded(outcome) ==
  << Success(outcome) >>
    \o (IF outcome.kind = "result" THEN << >> ELSE << Failure(outcome.error) >>)
\* What the handler writes once the renderer call has settled (111-128).
ResponsesFor(outcome) ==
  IF outcome.kind = "result" THEN << Success(outcome) >> ELSE << Failure(outcome.error) >>

\* ------------------------------------------- renderSvgFullPage: options

\* options.outputType || 'png' (line 192).
TypeOption(a) == IF TruthyField(a.outputType) THEN a.outputType.s ELSE Png

\* options.deviceScaleFactor || 2 (line 188).
ScaleOption(a) ==
  IF TruthyField(a.deviceScaleFactor) THEN a.deviceScaleFactor.n ELSE DefaultScale

\* options.timeout || 30000 (line 166).
TimeoutOption(a) == IF TruthyField(a.timeout) THEN a.timeout.n ELSE DefaultTimeout

\* Math.round((options.quality || 1) * 100) (line 200), -1 when not jpeg.
QualityOption(a) ==
  IF TypeOption(a) = Jpeg
  THEN ((IF TruthyField(a.quality) THEN a.quality.n ELSE QualityOne) + 5) \div 10
  ELSE -1

\* ------------------------------------------------------------- state

VARIABLES
  req,      \* req[c]: the request or library call in slot c
  pc,       \* pc[c]: the await the call is suspended at
  args,     \* args[c]: the arguments renderSvgFullPage was called with
  nRender,  \* nRender[c]: how often the renderer was invoked for c
  handle,   \* handle[c]: the local const browser (0: not launched)
  browser,  \* browser[b]: the engine instances, "none", "open" or "closed"
  pageOf,   \* pageOf[c]: the local const page (0: none)
  page,     \* page[p]: the pages' loaded document and viewport
  box,      \* box[c]: the local boundingBox
  final,    \* final[c]: the locals finalWidth and finalHeight
  buffer,   \* buffer[c]: the local buffer
  outcome,  \* outcome[c]: the completion pending in finally, then delivered
  resp,     \* resp[c]: the responses written for the request, in order
  loadBound, \* loadBound[c]: the timeout of the pending page.setContent (0: none)
  tempDir,  \* whether the directory temp exists
  files,    \* files[c]: the files call c has written
  dims,     \* dims[c]: the locals svgWidth and svgHeight
  ret,      \* ret[c]: what the convenience function that made call c returned
  client,   \* the browser side: one call of safariRenderToBlob
  clock,    \* what new Date() reads, in milliseconds
  stamp,    \* stamp[c]: the local timestamp, which names the call's files
  requestCount,  \* the server's counter (fallback-server.js, line 146)
  traffic   \* the HTTP requests sent to the server and what /stats last said

vars == << req, pc, args, nRender, handle, browser, pageOf, page, box, final,
           buffer, outcome, resp, loadBound, tempDir, files, dims, ret, client,
           clock, stamp, requestCount, traffic >>

\* What the clients of the server have seen: how many requests they sent,
\* the totalRequests of the latest answer of GET /stats (-1: none yet) and
\* how many requests had been sent when it was given.
NoTraffic == [received |-> 0, totalRequests |-> -1, receivedThen |-> 0]

\* The files of a call: temp/html-<timestamp>.html (line 159), the file at
\* options.outputPath (208) and temp/png-<timestamp>.<outputType> (213).
HtmlFile == "html"
OutputFile == "output"
DebugFile == "debug"

\* The path of file f of call c (lines 119, 159, 208 and 213): the timestamp
\* is the clock's reading in milliseconds when the call passed line 119.
PathOf(c, f) ==
  IF f = HtmlFile THEN << "temp/html-", stamp[c], <<"h", "t", "m", "l">> >>
  ELSE IF f = DebugFile THEN << "temp/png-", stamp[c], TypeOption(args[c]) >>
  ELSE << "", 0, args[c].outputPath.s >>

\* ------------------------------------------------- the browser side
\* safari-fallback: the functions a page calls.  Text is a sequence of
\* characters.

\* s.includes(needle), which is what an unanchored literal pattern tests.
Occurs(needle, s) ==
  \E i \in 1..(Len(s) - Len(needle) + 1) :
    SubSeq(s, i, i + Len(needle) - 1) = needle

\* The product names of user-agent strings.
Ua ==
  [Mozilla |-> <<"M", "o", "z", "i", "l", "l", "a">>,
   AppleWebKit |-> <<"A", "p", "p", "l", "e", "W", "e", "b", "K", "i", "t">>,
   Gecko |-> <<"G", "e", "c", "k", "o">>,
   Version |-> <<"V", "e", "r", "s", "i", "o", "n">>,
   Mobile |-> <<"M", "o", "b", "i", "l", "e">>,
   Safari |-> <<"S", "a", "f", "a", "r", "i">>,
   Chrome |-> <<"C", "h", "r", "o", "m", "e">>,
   Firefox |-> <<"F", "i", "r", "e", "f", "o", "x">>,
   Edge |-> <<"E", "d", "g", "e">>,
   Edg |-> <<"E", "d", "g">>,
   OPR |-> <<"O", "P", "R">>,
   CriOS |-> <<"C", "r", "i", "O", "S">>,
   FxiOS |-> <<"F", "x", "i", "O", "S">>,
   EdgiOS |-> <<"E", "d", "g", "i", "O", "S">>]

\* A user-agent string: product names separated by spaces (versions and
\* platform comments left out; no pattern of isSafari matches inside them).
RECURSIVE Products(_)
Products(names) ==
  IF names = << >> THEN << >>
  ELSE IF Len(names) = 1 THEN Head(names)
  ELSE Head(names) \o <<" ">> \o Products(Tail(names))

\* navigator.userAgent of the browsers a page runs in, with the browser each
\* string belongs to.
UserAgents ==
  { [browser |-> "Safari",
     userAgent |-> Products(<< Ua.Mozilla, Ua.AppleWebKit, Ua.Version, Ua.Safari >>)],
    [browser |-> "Safari",
     userAgent |-> Products(<< Ua.Mozilla, Ua.AppleWebKit, Ua.Version, Ua.Mobile, Ua.Safari >>)],
    [browser |-> "Chrome",
     userAgent |-> Products(<< Ua.Mozilla, Ua.AppleWebKit, Ua.Chrome, Ua.Safari >>)],
    [browser |-> "Firefox",
     userAgent |-> Products(<< Ua.Mozilla, Ua.Gecko, Ua.Firefox >>)],
    [browser |-> "Edge",
     userAgent |-> Products(<< Ua.Mozilla, Ua.AppleWebKit, Ua.Chrome, Ua.Safari, Ua.Edge >>)],
    [browser |-> "Edge",
     userAgent |-> Products(<< Ua.Mozilla, Ua.AppleWebKit, Ua.Chrome, Ua.Safari, Ua.Edg >>)],
    [browser |-> "Opera",
     userAgent |-> Products(<< Ua.Mozilla, Ua.AppleWebKit, Ua.Chrome, Ua.Safari, Ua.OPR >>)],
    [browser |-> "Chrome",
     userAgent |-> Products(<< Ua.Mozilla, Ua.AppleWebKit, Ua.CriOS, Ua.Mobile, Ua.Safari >>)],
    [browser |-> "Firefox",
     userAgent |-> Products(<< Ua.Mozilla, Ua.AppleWebKit, Ua.FxiOS, Ua.Mobile, Ua.Safari >>)],
    [browser |-> "Edge",
     userAgent |-> Products(<< Ua.Mozilla, Ua.AppleWebKit, Ua.Version, Ua.EdgiOS, Ua.Mobile,
                               Ua.Safari >>)] }

\* /Safari/.test(userAgent) && !/Chrome|Firefox|Edge|OPR/.test(userAgent)
isSafari(userAgent) ==
  /\ Occurs(Ua.Safari, userAgent)
  /\ ~ \E other \in {Ua.Chrome, Ua.Firefox, Ua.Edge, Ua.OPR} : Occurs(other, userAgent)

\* Markup text.  "S" stands for the text of one element
\* <svg width="2" height="1"></svg>, which holds no comma and no percent
\* sign, and "s" for that text percent-encoded; the other characters are
\* themselves.
SvgChar == "S"
EncodedSvgChar == "s"

\* encodeURIComponent.
RECURSIVE encodeURIComponent(_)
encodeURIComponent(s) ==
  IF s = << >> THEN << >>
  ELSE (IF Head(s) = SvgChar THEN << EncodedSvgChar >>
        ELSE IF Head(s) = "," THEN << "%", "2", "C" >>
        ELSE IF Head(s) = "%" THEN << "%", "2", "5" >>
        ELSE << Head(s) >>) \o encodeURIComponent(Tail(s))

\* The character an escape %hh over the digits 2, 5 and C stands for; << >>
\* when it is no whole UTF-8 sequence (%C2, %C5 and %CC open a two-byte
\* sequence that no escape over these digits continues).
Unescaped(h1, h2) ==
  IF h1 = "2" /\ h2 = "C" THEN << "," >>
  ELSE IF h1 = "2" /\ h2 = "5" THEN << "%" >>
  ELSE IF h1 = "2" /\ h2 = "2" THEN << "\"" >>
  ELSE IF h1 = "5" /\ h2 = "2" THEN << "R" >>
  ELSE IF h1 = "5" /\ h2 = "5" THEN << "U" >>
  ELSE IF h1 = "5" /\ h2 = "C" THEN << "\\" >>
  ELSE << >>

\* decodeURIComponent: ok is FALSE when it throws URIError.
RECURSIVE decodeURIComponent(_)
decodeURIComponent(s) ==
  IF s = << >> THEN [ok |-> TRUE, s |-> << >>]
  ELSE IF Head(s) = "%"
    THEN IF /\ Len(s) >= 3
            /\ Unescaped(s[2], s[3]) # << >>
         THEN LET rest == decodeURIComponent(SubSeq(s, 4, Len(s)))
              IN [ok |-> rest.ok, s |-> Unescaped(s[2], s[3]) \o rest.s]
         ELSE [ok |-> FALSE, s |-> << >>]
    ELSE LET rest == decodeURIComponent(Tail(s))
         IN [ok |-> rest.ok,
             s |-> << IF Head(s) = EncodedSvgChar THEN SvgChar ELSE Head(s) >>
                   \o rest.s]

\* s.split(','): the pieces between the commas.
RECURSIVE Split(_)
Split(s) ==
  IF \A i \in 1..Len(s) : s[i] # "," THEN << s >>
  ELSE LET i == CHOOSE k \in 1..Len(s) :
                  s[k] = "," /\ \A j \in 1..(k - 1) : s[j] # ","
       IN << SubSeq(s, 1, i - 1) >> \o Split(SubSeq(s, i + 1, Len(s)))

\* The head of an svg data URI, one character of the model.
SvgMime == "data:image/svg+xml"

\* svgDataUri.startsWith('data:image/svg+xml')
IsSvgDataUri(s) == s # << >> /\ Head(s) = SvgMime

\* svgDataUriToString: the recovered text, and whether decodeURIComponent
\* threw inside the try block.
svgDataUriToString(svgDataUri) ==
  IF ~IsSvgDataUri(svgDataUri) THEN [s |-> svgDataUri, caught |-> FALSE]
  ELSE LET svgString == Split(svgDataUri)[2]
           decoded == decodeURIComponent(svgString)
       IN IF decoded.ok THEN [s |-> decoded.s, caught |-> FALSE]
          ELSE [s |-> svgString, caught |-> TRUE]

\* The markup toSvg produces in the runs: one element; two elements with a
\* comma between them; two with a percent sign between them.
Markups ==
  { << SvgChar >>, << SvgChar, ",", SvgChar >>, << SvgChar, "%", SvgChar >> }

\* The data URI of markup m, its payload raw or percent-encoded.
DataUri(m, encoded) ==
  << SvgMime, ";charset=utf-8", "," >> \o (IF encoded THEN encodeURIComponent(m) ELSE m)

\* What toSvgFunc resolves with: a data URI of markup, and markup as it is.
SvgSources ==
  { [markup |-> m, uri |-> DataUri(m, e)] : m \in Markups, e \in BOOLEAN }
  \cup { [markup |-> << SvgChar >>, uri |-> << SvgChar >>] }

\* The text of markup as the page that loads it parses it: an element for
\* each svg element, a text node for each other character.
RECURSIVE MarkupDoc(_)
MarkupDoc(s) ==
  IF s = << >> THEN << >>
  ELSE << IF Head(s) = SvgChar THEN DocSmall[1] ELSE El("#text", << >>) >>
       \o MarkupDoc(Tail(s))

ClientDefaultScale == 2

\* The options a page passes: quality and deviceScaleFactor, each supplied
\* or not.
ClientOptions(quality, scale) == [quality |-> quality, deviceScaleFactor |-> scale]

\* The calls safariRenderToBlob(node, format, toSvg, options) of the runs.
ClientCalls ==
  { [format |-> Absent, options |-> ClientOptions(Absent, Absent)],
    [format |-> Str(Jpeg), options |-> ClientOptions(Num(0), Absent)],
    [format |-> Str(Jpeg), options |-> ClientOptions(Num(QualityOne \div 2), Num(3))],
    [format |-> Str(<<"g", "i", "f">>), options |-> ClientOptions(Absent, Absent)] }

\* a || b on field values.
OrElse(a, b) == IF TruthyField(a) THEN a ELSE b

\* The object fetchFallbackRender serialises as the request body; its
\* parameter format defaults to 'png'.
Payload(svgString, format, options) ==
  [svg |-> svgString,
   outputType |-> IF format.kind = "absent" THEN Str(Png) ELSE format,
   quality |-> OrElse(options.quality, Num(QualityOne)),
   deviceScaleFactor |-> OrElse(options.deviceScaleFactor, Num(ClientDefaultScale))]

\* The POST /render request that carries a payload as its JSON body.
RequestOf(payload) ==
  Http(SvgAbsent, SvgText(MarkupDoc(payload.svg)), payload.outputType,
       payload.quality, payload.deviceScaleFactor, Absent)

\* The reason phrase of a status.
StatusText(status) ==
  IF status = 200 THEN "OK"
  ELSE IF status = 400 THEN "Bad Request"
  ELSE IF status = 500 THEN "Internal Server Error"
  ELSE "Bad Gateway"

\* A response as fetch hands it over: ok, the status line, whether the body
\* is JSON (with its field error, present or not), and the body's bytes.
NoResponse ==
  [ok |-> FALSE, status |-> 0, statusText |-> "", json |-> FALSE,
   hasError |-> FALSE, error |-> "", blob |-> NoBuffer]

\* What the server of POST /render answered: it sends the image with
\* res.send and every error with res.json.
FromServer(r) ==
  [ok |-> r.status \in 200..299, status |-> r.status,
   statusText |-> StatusText(r.status), json |-> r.status # 200,
   hasError |-> r.hasError, error |-> r.error, blob |-> r.body]

\* What a proxy in front of an unreachable server answers: an error page
\* that is not JSON.
GatewayResponse ==
  [NoResponse EXCEPT !.status = 502, !.statusText = StatusText(502)]

\* The same from a proxy that answers in JSON of its own, without a field
\* error.
GatewayJson == [GatewayResponse EXCEPT !.json = TRUE]

\* What a call on the browser side settled with: a Blob, a data URL, or an
\* error.
NoClientOutcome == [kind |-> "none", image |-> NoBuffer, error |-> Error("", << >>)]
ClientThrown(name, message) ==
  [NoClientOutcome EXCEPT !.kind = "error", !.error = Error(name, message)]

\* A variant of response.blob() that resolves with a data URL.
DataUrlOf(response) == [NoClientOutcome EXCEPT !.kind = "dataUrl", !.image = response.blob]

\* response.blob() resolved.
BlobOf(response) == [NoClientOutcome EXCEPT !.kind = "blob", !.image = response.blob]

\* What the canvas path of toPng resolves with: canvas.toDataURL().
CanvasResultKind == "dataUrl"

\* blobToDataUrl, the last step of toPng's Safari branch: the same image as
\* a data URL.
blobToDataUrl(blob) == [blob EXCEPT !.kind = CanvasResultKind]

\* A variant that takes every answer below 500 for a success.
RejectsServerErrors(response) == response.status >= 500

\* if (!response.ok)
Rejects(response) == ~response.ok

\* const error = await response.json().catch(() => ({})): the field error of
\* the parsed body, "" when it has none or the body is not JSON.
ParsedError(response) ==
  IF response.json /\ response.hasError THEN response.error ELSE ""

\* error.error || response.statusText
FailureDetail(response) ==
  IF ParsedError(response) # "" THEN ParsedError(response) ELSE response.statusText

\* The browser side before any call.
NoClient ==
  [navigator |-> [browser |-> "", userAgent |-> << >>], detected |-> "unknown", pc |-> "idle",
   format |-> Absent, options |-> ClientOptions(Absent, Absent),
   markup |-> << >>, svgDataUri |-> << >>, svgString |-> << >>,
   caught |-> {},
   payload |-> [svg |-> << >>, outputType |-> Absent, quality |-> Absent,
                deviceScaleFactor |-> Absent],
   nFetch |-> 0,
   response |-> NoResponse, outcome |-> NoClientOutcome]

NoPage == [content |-> NoDoc, viewport |-> NoViewport]

\* A page as the engine creates it.
BlankPage ==
  [content |-> NoDoc,
   viewport |-> [width |-> Px(InitViewportW), height |-> Px(InitViewportH),
                 deviceScaleFactor |-> 1]]

ServerInit ==
  /\ req = [c \in Calls |-> NoReq]
  /\ pc = [c \in Calls |-> "idle"]
  /\ args = [c \in Calls |-> NoArgs]
  /\ nRender = [c \in Calls |-> 0]
  /\ handle = [c \in Calls |-> 0]
  /\ browser = [b \in Calls |-> "none"]
  /\ pageOf = [c \in Calls |-> 0]
  /\ page = [p \in Calls |-> NoPage]
  /\ box = [c \in Calls |-> NoBox]
  /\ final = [c \in Calls |-> NoBox]
  /\ buffer = [c \in Calls |-> NoBuffer]
  /\ outcome = [c \in Calls |-> NoOutcome]
  /\ resp = [c \in Calls |-> << >>]
  /\ loadBound = [c \in Calls |-> 0]
  /\ tempDir = FALSE
  /\ files = [c \in Calls |-> {}]
  /\ dims = [c \in Calls |-> NoBox]
  /\ ret = [c \in Calls |-> NoBuffer]
  /\ clock = 0
  /\ stamp = [c \in Calls |-> 0]
  /\ requestCount = 0
  /\ traffic = NoTraffic

\* The state after construction, no page running on the browser side.
Init == ServerInit /\ client = NoClient

\* The same with a page in some browser.
ClientInit ==
  /\ ServerInit
  /\ \E navigator \in UserAgents : client = [NoClient EXCEPT !.navigator = navigator]

\* Slots are taken in order: the calls are numbered by arrival.
Free(c) == pc[c] = "idle" /\ \A d \in Calls : d < c => pc[d] # "idle"

\* The awaits of one renderer call, in program order.
RendererPcs ==
  {"init", "launch", "newPage", "writeHtml", "setContent", "evaluate",
   "setViewport", "screenshot", "writeOutput", "writeDebug", "close"}

InFlight(c) == pc[c] \in RendererPcs

\* ------------------------------------------------------ POST /render

\* Where the handler is after a return res.status(400).json(...).
AfterRejection == "responded"

\* The handler up to its await (lines 68-109): it rejects the request, or
\* calls the renderer, which runs up to its first await (line 99).
Receive(c, requests) ==
  \E r \in requests :
    /\ Free(c)
    /\ req' = [req EXCEPT ![c] = r]
    /\ IF ~SvgPresent(SvgOf(r))
       THEN /\ resp' = [resp EXCEPT ![c] = Append(@, Rejection("svg required"))]
            /\ pc' = [pc EXCEPT ![c] = AfterRejection]
            /\ UNCHANGED << args, nRender >>
       ELSE IF ~ValidOutputType(OutputTypeOf(r))
       THEN /\ resp' = [resp EXCEPT ![c] = Append(@, Rejection("outputType unsupported"))]
            /\ pc' = [pc EXCEPT ![c] = AfterRejection]
            /\ UNCHANGED << args, nRender >>
       ELSE /\ args' = [args EXCEPT ![c] = HandlerArgs(r)]
            /\ nRender' = [nRender EXCEPT ![c] = @ + 1]
            /\ pc' = [pc EXCEPT ![c] = "init"]
            /\ UNCHANGED resp
    /\ UNCHANGED << handle, browser, pageOf, page, box, final, buffer, outcome >>
    /\ UNCHANGED << loadBound, tempDir, files >>
    /\ UNCHANGED << dims, ret, client >>
    /\ traffic' = [traffic EXCEPT !.received = @ + 1]
    /\ UNCHANGED << clock, stamp, requestCount >>

\* A direct call of renderSvgFullPage, up to its first await.
Call(c, calls) ==
  \E r \in calls :
    /\ Free(c)
    /\ req' = [req EXCEPT ![c] = r]
    /\ args' = [args EXCEPT ![c] = LibArgs(r)]
    /\ nRender' = [nRender EXCEPT ![c] = @ + 1]
    /\ pc' = [pc EXCEPT ![c] = "init"]
    /\ UNCHANGED << handle, browser, pageOf, page, box, final, buffer, outcome, resp >>
    /\ UNCHANGED << loadBound, tempDir, files >>
    /\ UNCHANGED << dims, ret, client >>
    /\ UNCHANGED << clock, stamp, requestCount, traffic >>

\* A call of svgToPng, svgToJpeg or svgToWebp with the options of a call in
\* calls: it calls renderSvgFullPage, which runs up to its first await.
Convert(c, calls) ==
  \E r \in calls, wrapper \in Wrappers :
    /\ Free(c)
    /\ req' = [req EXCEPT ![c] = [r EXCEPT !.origin = wrapper]]
    /\ args' = [args EXCEPT ![c] = WrapperArgs(r, wrapper)]
    /\ nRender' = [nRender EXCEPT ![c] = @ + 1]
    /\ pc' = [pc EXCEPT ![c] = "init"]
    /\ UNCHANGED << handle, browser, pageOf, page, box, final, buffer, outcome, resp >>
    /\ UNCHANGED << loadBound, tempDir, files >>
    /\ UNCHANGED << dims, ret, client >>
    /\ UNCHANGED << clock, stamp, requestCount, traffic >>

\* The convenience function after its await: return result.buffer, or the
\* render's error goes on to its caller.
Return(c) ==
  /\ pc[c] = "settled"
  /\ req[c].origin \in Wrappers
  /\ ret' = [ret EXCEPT ![c] = IF outcome[c].kind = "result"
                               THEN outcome[c].buffer ELSE NoBuffer]
  /\ pc' = [pc EXCEPT ![c] = "returned"]
  /\ UNCHANGED << req, args, nRender, handle, browser, pageOf, page, box, final,
                  buffer, outcome, resp >>
  /\ UNCHANGED << loadBound, tempDir, files >>
  /\ UNCHANGED << dims, client >>
  /\ UNCHANGED << clock, stamp, requestCount, traffic >>

\* The handler after its await (lines 111-128).
Respond(c) ==
  /\ pc[c] = "settled"
  /\ req[c].origin = "http"
  /\ resp' = [resp EXCEPT ![c] = @ \o ResponsesFor(outcome[c])]
  /\ pc' = [pc EXCEPT ![c] = "responded"]
  /\ UNCHANGED << req, args, nRender, handle, browser, pageOf, page, box, final,
                  buffer, outcome >>
  /\ UNCHANGED << loadBound, tempDir, files >>
  /\ UNCHANGED << dims, ret, client >>
  /\ UNCHANGED << clock, stamp, requestCount, traffic >>

\* ------------------------------------------------- renderSvgFullPage

\* puppeteer.launch() starts an engine instance of the call's own, and
\* browser.newPage() a page of the call's own (lines 101-107): instances and
\* pages are numbered by the call that created them.  (First, variants
\* that share one engine instance, or one page, between calls.)
ReusedInstance(c) ==
  IF \E b \in Calls : browser[b] = "open"
  THEN CHOOSE b \in Calls : browser[b] = "open"
  ELSE c
SharedPage(c) == 1
LaunchedInstance(c) == c
CreatedPage(c) == c

\* A variant that goes on to the capture when a step throws.
ThrowResumes == "screenshot"
\* A variant that starts the render over when a step throws.
ThrowRetries == "launch"
\* A variant without the finally block.
ThrowSkipsFinally == "settled"
\* Where control goes when a step inside try throws: the finally block.
ThrowTarget == "close"

Throw(c, e) ==
  /\ pc' = [pc EXCEPT ![c] = ThrowTarget]
  /\ outcome' = [outcome EXCEPT ![c] = Thrown(e)]

\* The rejection of page.setContent when its timeout elapses (164-167).
LoadFailure == Error("TimeoutError", "Navigation timeout exceeded")

\* A variant in which the capture is abandoned after a time bound.
CaptureTimesOut == Error("TimeoutError", "screenshot timed out")
\* The rejection of page.screenshot (203).
CaptureFailure == Error("Error", "screenshot failed")

\* buffer.length of a capture: the encoder is the engine's; this one gives
\* more bytes for more pixels and for a higher jpeg quality setting.
EncodedLength(pixels, quality) ==
  pixels * (IF quality < 0 THEN 101 ELSE quality + 1)

\* A variant that captures at one physical pixel per CSS pixel.
CaptureCssPixels(p, type, quality) ==
  [doc |-> p.content, type |-> type, quality |-> quality,
   width |-> p.viewport.width \div SubPixel,
   height |-> p.viewport.height \div SubPixel,
   length |-> EncodedLength((p.viewport.width \div SubPixel)
                              * (p.viewport.height \div SubPixel), quality)]
\* page.screenshot({type, fullPage: true, omitBackground: true, quality}):
\* the whole document, which the style sheet makes as large as the
\* viewport, at the viewport's pixel density.
Capture(p, type, quality) ==
  LET width == (p.viewport.width \div SubPixel) * p.viewport.deviceScaleFactor
      height == (p.viewport.height \div SubPixel) * p.viewport.deviceScaleFactor
  IN [doc |-> p.content, type |-> type, quality |-> quality,
      width |-> width, height |-> height,
      length |-> EncodedLength(width * height, quality)]

\* A variant that reports the width extractSvgDimensions guessed.
GuessedWidth(c) == extractSvgDimensions(args[c].svg.doc).width
\* Lines 219-220.
ResultWidth(c) == final[c].width
ResultHeight(c) == final[c].height

\* await initPuppeteer() settles (line 99); then puppeteer.launch is called.
InitPuppeteer(c) ==
  /\ pc[c] = "init"
  /\ \/ /\ pc' = [pc EXCEPT ![c] = "launch"]
        /\ UNCHANGED outcome
     \/ /\ pc' = [pc EXCEPT ![c] = "settled"]
        /\ outcome' = [outcome EXCEPT
                         ![c] = Thrown(Error("Error", "Puppeteer is not installed"))]
  /\ UNCHANGED << req, args, nRender, handle, browser, pageOf, page, box, final,
                  buffer, resp >>
  /\ UNCHANGED << loadBound, tempDir, files >>
  /\ UNCHANGED << dims, ret, client >>
  /\ UNCHANGED << clock, stamp, requestCount, traffic >>

\* await puppeteer.launch() settles (101-104); then try is entered and
\* browser.newPage is called.
Launch(c) ==
  /\ pc[c] = "launch"
  /\ \/ /\ handle' = [handle EXCEPT ![c] = LaunchedInstance(c)]
        /\ browser' = [browser EXCEPT ![LaunchedInstance(c)] = "open"]
        /\ pc' = [pc EXCEPT ![c] = "newPage"]
        /\ UNCHANGED outcome
     \/ /\ pc' = [pc EXCEPT ![c] = "settled"]
        /\ outcome' = [outcome EXCEPT ![c] = Thrown(Error("Error", "launch failed"))]
        /\ UNCHANGED << handle, browser >>
  /\ UNCHANGED << req, args, nRender, pageOf, page, box, final, buffer, resp >>
  /\ UNCHANGED << loadBound, tempDir, files >>
  /\ UNCHANGED << dims, ret, client >>
  /\ UNCHANGED << clock, stamp, requestCount, traffic >>

\* await browser.newPage() settles (107); then lines 111-160 run:
\* extractSvgDimensions calls svgString.match, the directory temp is made
\* unless it exists (115-119), and the HTML file write is started.
NewPage(c) ==
  /\ pc[c] = "newPage"
  /\ \/ /\ Throw(c, Error("Error", "newPage failed"))
        /\ UNCHANGED << pageOf, page, tempDir, dims, stamp >>
     \/ /\ pageOf' = [pageOf EXCEPT ![c] = CreatedPage(c)]
        /\ page' = [page EXCEPT ![CreatedPage(c)] = BlankPage]
        /\ \/ /\ args[c].svg.kind # "string"
              /\ Throw(c, Error("TypeError", "svgString.match is not a function"))
              /\ UNCHANGED << tempDir, dims, stamp >>
           \/ /\ args[c].svg.kind = "string"
              /\ ~tempDir
              /\ dims' = [dims EXCEPT ![c] = extractSvgDimensions(args[c].svg.doc)]
              /\ Throw(c, Error("Error", "mkdir failed"))
              /\ UNCHANGED << tempDir, stamp >>
           \/ /\ args[c].svg.kind = "string"
              /\ dims' = [dims EXCEPT ![c] = extractSvgDimensions(args[c].svg.doc)]
              /\ tempDir' = TRUE
              /\ stamp' = [stamp EXCEPT ![c] = clock]
              /\ pc' = [pc EXCEPT ![c] = "writeHtml"]
              /\ UNCHANGED outcome
  /\ UNCHANGED << req, args, nRender, handle, browser, box, final, buffer, resp,
                  loadBound, files >>
  /\ UNCHANGED << ret, client >>
  /\ UNCHANGED << clock, requestCount, traffic >>

\* await fs.promises.writeFile(htmlPath, ...) settles (160): the file is
\* there when the write succeeded.  Then page.setContent is called with the
\* timeout of line 166.
WriteHtml(c) ==
  /\ pc[c] = "writeHtml"
  /\ \/ /\ files' = [files EXCEPT ![c] = @ \cup {HtmlFile}]
        /\ loadBound' = [loadBound EXCEPT ![c] = TimeoutOption(args[c])]
        /\ pc' = [pc EXCEPT ![c] = "setContent"]
        /\ UNCHANGED outcome
     \/ /\ Throw(c, Error("Error", "writeFile failed"))
        /\ UNCHANGED << files, loadBound >>
  /\ UNCHANGED << req, args, nRender, handle, browser, pageOf, page, box, final,
                  buffer, resp, tempDir >>
  /\ UNCHANGED << dims, ret, client >>
  /\ UNCHANGED << clock, stamp, requestCount, traffic >>

\* await page.setContent(html, {waitUntil, timeout}) settles (164-167); then
\* page.evaluate is called.
SetContent(c) ==
  /\ pc[c] = "setContent"
  /\ \/ /\ page' = [page EXCEPT ![pageOf[c]].content = args[c].svg.doc]
        /\ pc' = [pc EXCEPT ![c] = "evaluate"]
        /\ UNCHANGED outcome
     \/ /\ Throw(c, LoadFailure)
        /\ UNCHANGED page
  /\ loadBound' = [loadBound EXCEPT ![c] = 0]
  /\ UNCHANGED << req, args, nRender, handle, browser, pageOf, box, final,
                  buffer, resp, tempDir, files >>
  /\ UNCHANGED << dims, ret, client >>
  /\ UNCHANGED << clock, stamp, requestCount, traffic >>

\* await page.evaluate(...) settles (170-179); then the final size is
\* computed (182-183) and page.setViewport is called.
Evaluate(c) ==
  LET doc == page[pageOf[c]].content
      i == QuerySelectorSvg(doc)
      measured == MeasuredBox(BoundingClientRect(doc[i], page[pageOf[c]].viewport))
  IN
  /\ pc[c] = "evaluate"
  /\ \/ /\ i = 0
        /\ Throw(c, Error("Error", "SVG element not found"))
        /\ UNCHANGED << box, final >>
     \/ /\ i # 0
        /\ box' = [box EXCEPT ![c] = measured]
        /\ final' = [final EXCEPT ![c] = [width |-> Ceil(measured.width),
                                          height |-> Ceil(measured.height)]]
        /\ pc' = [pc EXCEPT ![c] = "setViewport"]
        /\ UNCHANGED outcome
     \/ /\ Throw(c, Error("Error", "evaluate failed"))
        /\ UNCHANGED << box, final >>
  /\ UNCHANGED << req, args, nRender, handle, browser, pageOf, page, buffer, resp >>
  /\ UNCHANGED << loadBound, tempDir, files >>
  /\ UNCHANGED << dims, ret, client >>
  /\ UNCHANGED << clock, stamp, requestCount, traffic >>

\* await page.setViewport(...) settles (185-189); then the screenshot
\* options are built (192-201) and page.screenshot is called.
SetViewport(c) ==
  /\ pc[c] = "setViewport"
  /\ \/ /\ page' = [page EXCEPT
                      ![pageOf[c]].viewport =
                         [width |-> final[c].width, height |-> final[c].height,
                          deviceScaleFactor |-> ScaleOption(args[c])]]
        /\ pc' = [pc EXCEPT ![c] = "screenshot"]
        /\ UNCHANGED outcome
     \/ /\ Throw(c, Error("Error", "setViewport failed"))
        /\ UNCHANGED page
  /\ UNCHANGED << req, args, nRender, handle, browser, pageOf, box, final,
                  buffer, resp >>
  /\ UNCHANGED << loadBound, tempDir, files >>
  /\ UNCHANGED << dims, ret, client >>
  /\ UNCHANGED << clock, stamp, requestCount, traffic >>

\* await page.screenshot(...) settles (203); then the first file write is
\* started: to outputPath when given (207-208), else the debug copy (214).
Screenshot(c) ==
  /\ pc[c] = "screenshot"
  /\ \/ /\ buffer' = [buffer EXCEPT
                        ![c] = Capture(page[pageOf[c]], TypeOption(args[c]),
                                       QualityOption(args[c]))]
        /\ pc' = [pc EXCEPT ![c] = IF TruthyField(args[c].outputPath)
                                   THEN "writeOutput" ELSE "writeDebug"]
        /\ UNCHANGED outcome
     \/ /\ Throw(c, CaptureFailure)
        /\ UNCHANGED buffer
  /\ UNCHANGED << req, args, nRender, handle, browser, pageOf, page, box, final,
                  resp >>
  /\ UNCHANGED << loadBound, tempDir, files >>
  /\ UNCHANGED << dims, ret, client >>
  /\ UNCHANGED << clock, stamp, requestCount, traffic >>

\* await fs.promises.writeFile(options.outputPath, buffer) settles (208).
WriteOutput(c) ==
  /\ pc[c] = "writeOutput"
  /\ \/ /\ files' = [files EXCEPT ![c] = @ \cup {OutputFile}]
        /\ pc' = [pc EXCEPT ![c] = "writeDebug"]
        /\ UNCHANGED outcome
     \/ /\ Throw(c, Error("Error", "writeFile failed"))
        /\ UNCHANGED files
  /\ UNCHANGED << req, args, nRender, handle, browser, pageOf, page, box, final,
                  buffer, resp, loadBound, tempDir >>
  /\ UNCHANGED << dims, ret, client >>
  /\ UNCHANGED << clock, stamp, requestCount, traffic >>

\* await fs.promises.writeFile(debugPath, buffer) settles (214); then the
\* result is returned (217-224), which enters finally.
WriteDebug(c) ==
  /\ pc[c] = "writeDebug"
  /\ \/ /\ outcome' = [outcome EXCEPT
                         ![c] = Returned(buffer[c], ResultWidth(c), ResultHeight(c),
                                         TypeOption(args[c]),
                                         IF TruthyField(args[c].outputPath)
                                         THEN args[c].outputPath ELSE Absent)]
        /\ files' = [files EXCEPT ![c] = @ \cup {DebugFile}]
        /\ pc' = [pc EXCEPT ![c] = "close"]
     \/ /\ Throw(c, Error("Error", "writeFile failed"))
        /\ UNCHANGED files
  /\ UNCHANGED << req, args, nRender, handle, browser, pageOf, page, box, final,
                  buffer, resp, loadBound, tempDir >>
  /\ UNCHANGED << dims, ret, client >>
  /\ UNCHANGED << clock, stamp, requestCount, traffic >>

\* finally { await browser.close() } (225-227): the close is called and
\* awaited; "closed" says the call has settled.  When it rejects, its error
\* replaces the pending completion.  Then the call's promise settles: the
\* function's locals are gone, and so is the page of the closed instance.
Close(c) ==
  /\ pc[c] = "close"
  /\ browser' = [browser EXCEPT ![handle[c]] = "closed"]
  /\ pc' = [pc EXCEPT ![c] = "settled"]
  /\ \/ UNCHANGED outcome
     \/ outcome' = [outcome EXCEPT ![c] = Thrown(Error("Error", "close failed"))]
  /\ page' = IF pageOf[c] = 0 THEN page ELSE [page EXCEPT ![pageOf[c]] = NoPage]
  /\ pageOf' = [pageOf EXCEPT ![c] = 0]
  /\ box' = [box EXCEPT ![c] = NoBox]
  /\ final' = [final EXCEPT ![c] = NoBox]
  /\ buffer' = [buffer EXCEPT ![c] = NoBuffer]
  /\ UNCHANGED << req, args, nRender, handle, resp >>
  /\ UNCHANGED << loadBound, tempDir, files >>
  /\ dims' = [dims EXCEPT ![c] = NoBox]
  /\ UNCHANGED << ret, client >>
  /\ UNCHANGED << clock, stamp, requestCount, traffic >>

\* The steps of a call the handler made: it passes no outputPath (lines
\* 104-109), so the write to outputPath is never one of them.
HandlerStep(c) ==
  \/ InitPuppeteer(c)
  \/ Launch(c)
  \/ NewPage(c)
  \/ WriteHtml(c)
  \/ SetContent(c)
  \/ Evaluate(c)
  \/ SetViewport(c)
  \/ Screenshot(c)
  \/ WriteDebug(c)
  \/ Close(c)
  \/ Respond(c)

\* The steps of a call that has started.
Step(c) == HandlerStep(c) \/ WriteOutput(c)

\* The server under overlapping requests: up to MaxCalls of them, their
\* steps interleaved in every order.
Next ==
  \E c \in Calls :
    \/ Receive(c, OverlappingRequests)
    \/ HandlerStep(c)

Spec == Init /\ [][Next]_vars

\* No request is being handled.
Quiet == \A d \in Calls : pc[d] \in {"idle", "responded"}

\* A request arrives when the one before it has been answered.
Arrive(c) ==
  /\ Quiet
  /\ Receive(c, QualityRequests)

\* The server under requests that arrive one after the other and differ in
\* quality only.
SerialNext ==
  \E c \in Calls :
    \/ Arrive(c)
    \/ HandlerStep(c)

SerialSpec == Init /\ [][SerialNext]_vars

\* A millisecond passes.
Tick ==
  /\ clock < MaxClock
  /\ clock' = clock + 1
  /\ UNCHANGED << req, pc, args, nRender, handle, browser, pageOf, page, box, final,
                  buffer, outcome, resp, loadBound, tempDir, files, dims, ret,
                  client, stamp, requestCount, traffic >>

\* The requests of two clients that post at about the same time: the same
\* svg, as png and as jpeg.
ClockRequests == { Body(SvgText(DocSmall)), Options(Absent, Absent, Absent) }

\* The server under two overlapping requests while time passes.
ClockNext ==
  \/ Tick
  \/ \E c \in {1, 2} :
       \/ Receive(c, ClockRequests)
       \/ HandlerStep(c)

ClockSpec == Init /\ [][ClockNext]_vars

\* The requests other than POST /render: GET /health, POST /render/batch,
\* GET /stats, and a path no route and no static file answers.
Routes == {"/health", "/render/batch", "/stats", "/other"}

\* Whether a request for route runs the counting middleware, which is
\* registered after the routes /health, /render and /render/batch (their
\* handlers answer without calling next) and before /stats.
Counted(route) == route \in {"/stats", "/other"}

\* A request for one of the routes is received and answered; the answer of
\* /stats holds the counter as totalRequests.
Request(route) ==
  /\ traffic.received < MaxRequests
  /\ requestCount' = IF Counted(route) THEN requestCount + 1 ELSE requestCount
  /\ traffic' = IF route = "/stats"
                THEN [received |-> traffic.received + 1,
                      totalRequests |-> requestCount',
                      receivedThen |-> traffic.received + 1]
                ELSE [traffic EXCEPT !.received = @ + 1]
  /\ UNCHANGED << req, pc, args, nRender, handle, browser, pageOf, page, box, final,
                  buffer, outcome, resp, loadBound, tempDir, files, dims, ret,
                  client, clock, stamp >>

\* The server under requests of every route, one POST /render among them.
StatsNext ==
  \/ \E route \in Routes : Request(route)
  \/ Receive(1, {Body(SvgText(DocSmall))})
  \/ HandlerStep(1)

StatsSpec == Init /\ [][StatsNext]_vars

\* One call, a request or a library call, drawn from all their shapes.
SoloNext ==
  \/ Receive(1, HttpRequests)
  \/ Call(1, LibCalls)
  \/ Convert(1, LibCalls)
  \/ Step(1)
  \/ Return(1)

SoloSpec == Init /\ [][SoloNext]_vars

\* ------------------------------------------- the browser side: the calls

serverVars ==
  << req, pc, args, nRender, handle, browser, pageOf, page, box, final, buffer,
     outcome, resp, loadBound, tempDir, files, dims, ret, clock, stamp,
     requestCount, traffic >>

\* The page evaluates isSafari().
Detect ==
  /\ client.pc = "idle"
  /\ client.detected = "unknown"
  /\ client' = [client EXCEPT
                  !.detected = IF isSafari(client.navigator.userAgent)
                               THEN "safari" ELSE "other"]
  /\ UNCHANGED serverVars

\* The page, having found isSafari() true, calls
\* safariRenderToBlob(node, format, toSvg, options), which runs up to
\* await toSvgFunc(node, options).
SafariRender(calls) ==
  \E call \in calls :
    /\ client.pc = "idle"
    /\ client.detected = "safari"
    /\ client' = [client EXCEPT !.format = call.format, !.options = call.options,
                                !.pc = "toSvg"]
    /\ UNCHANGED serverVars

\* toSvgFunc settles.  When it resolved, svgDataUriToString and
\* fetchFallbackRender run up to await fetch(...), which sends the request.
ToSvgSettles ==
  /\ client.pc = "toSvg"
  /\ \/ client' = [client EXCEPT !.outcome = ClientThrown("Error", <<"toSvg failed">>),
                                 !.pc = "done"]
     \/ \E source \in SvgSources :
          LET converted == svgDataUriToString(source.uri)
          IN client' = [client EXCEPT
                          !.markup = source.markup,
                          !.svgDataUri = source.uri,
                          !.svgString = converted.s,
                          !.caught = IF converted.caught THEN @ \cup {"URIError"} ELSE @,
                          !.payload = Payload(converted.s, client.format, client.options),
                          !.nFetch = @ + 1,
                          !.pc = "fetch"]
  /\ UNCHANGED serverVars

\* The request reaches POST /render.
Deliver ==
  /\ client.pc = "fetch"
  /\ Receive(1, {RequestOf(client.payload)})

\* await fetch(...) settles: with the server's answer, with the answer of a
\* proxy in front of it, or with a network error.  An answer leads to
\* response.blob() or to response.json().
FetchSettles ==
  /\ client.pc = "fetch"
  /\ \/ \E response \in (IF resp[1] # << >> THEN {FromServer(resp[1][1])} ELSE {})
                        \cup {GatewayResponse, GatewayJson} :
          client' = [client EXCEPT !.response = response,
                                   !.pc = IF Rejects(response) THEN "json" ELSE "blob"]
     \/ client' = [client EXCEPT
                     !.outcome = ClientThrown("TypeError", <<"Failed to fetch">>),
                     !.pc = "done"]
  /\ UNCHANGED serverVars

\* response.blob() settles; safariRenderToBlob returns what it resolved with.
BlobSettles ==
  /\ client.pc = "blob"
  /\ \/ client' = [client EXCEPT !.outcome = BlobOf(client.response), !.pc = "done"]
     \/ client' = [client EXCEPT
                     !.outcome = ClientThrown("TypeError", <<"Failed to fetch">>),
                     !.pc = "done"]
  /\ UNCHANGED serverVars

\* response.json() settles, its rejection caught and replaced by {}; then
\* the error is thrown.
JsonSettles ==
  /\ client.pc = "json"
  /\ client' = [client EXCEPT
                  !.caught = IF client.response.json THEN @ ELSE @ \cup {"SyntaxError"},
                  !.outcome = ClientThrown("Error", << "Fallback render failed: ",
                                                      FailureDetail(client.response) >>),
                  !.pc = "done"]
  /\ UNCHANGED serverVars

\* A page in some browser, one call of safariRenderToBlob and the server
\* that answers it.
ClientNext ==
  \/ Detect
  \/ SafariRender(ClientCalls)
  \/ ToSvgSettles
  \/ Deliver
  \/ HandlerStep(1)
  \/ FetchSettles
  \/ BlobSettles
  \/ JsonSettles

ClientSpec == ClientInit /\ [][ClientNext]_vars

\* ------------------------------------------------------------- claims

Delivered(c) == pc[c] \in {"settled", "responded"}
Launched(c) == handle[c] # 0

\* C1: whenever a render call that launched an engine instance has delivered
\* its result or error, browser.close() on that instance has been called
\* and has settled, whichever step the call left from.
C1_ClosedBeforeDelivery ==
  \A c \in Calls : Delivered(c) /\ Launched(c) => browser[handle[c]] = "closed"

\* A call that failed at the content load has delivered its error with the
\* engine closed.
C1_Witness ==
  \E c \in Calls :
    /\ pc[c] = "settled"
    /\ outcome[c].kind = "error"
    /\ outcome[c].error.name = "TimeoutError"
    /\ browser[handle[c]] = "closed"

OpenInstances == {b \in Calls : browser[b] = "open"}
CallsInFlight == {c \in Calls : InFlight(c)}

\* C2: the open engine instances never outnumber the render calls in
\* flight (so none is open when no call is in flight), and no two calls
\* hold the same engine instance or the same page.
C2_OwnInstance ==
  /\ Cardinality(OpenInstances) <= Cardinality(CallsInFlight)
  /\ \A c, d \in Calls :
       c # d =>
         /\ handle[c] # 0 => handle[c] # handle[d]
         /\ pageOf[c] # 0 => pageOf[c] # pageOf[d]

\* Two calls in flight at once, each with an open instance of its own.
C2_Witness ==
  \E c, d \in Calls :
    /\ c # d
    /\ InFlight(c) /\ InFlight(d)
    /\ handle[c] # 0 /\ handle[d] # 0
    /\ browser[handle[c]] = "open" /\ browser[handle[d]] = "open"
    /\ pageOf[c] # 0 /\ pageOf[d] # 0

IsHttp(c) == req[c].origin = "http"

\* The request was answered with one response, of status 400, without the
\* renderer being invoked or an engine instance launched for it.
RejectedUnrendered(c) ==
  /\ Len(resp[c]) = 1
  /\ resp[c][1].status = 400
  /\ pc[c] = "responded"
  /\ nRender[c] = 0
  /\ handle[c] = 0

\* C3 as stated: a request whose outputType field is a value other than png,
\* jpeg and webp is answered with 400 and never rendered.
C3_AsStated ==
  \A c \in Calls :
    /\ IsHttp(c)
    /\ req[c].outputType.kind = "string"
    /\ req[c].outputType.s \notin SupportedTypes
    => RejectedUnrendered(c)

\* C3, amended: a request whose outputType is a non-empty string that in
\* lower case is none of png, jpeg and webp is answered with 400, and the
\* renderer is not invoked and no engine instance launched for it.
C3_UnsupportedTypeRejected ==
  \A c \in Calls :
    /\ IsHttp(c)
    /\ req[c].outputType.kind = "string"
    /\ req[c].outputType.s # << >>
    /\ ToLowerCase(req[c].outputType.s) \notin SupportedTypes
    => RejectedUnrendered(c)

\* A request with an svg and the outputType GIF was answered with 400.
C3_Witness ==
  \E c \in Calls :
    /\ IsHttp(c)
    /\ SvgPresent(SvgOf(req[c]))
    /\ req[c].outputType = Str(<<"G", "I", "F">>)
    /\ RejectedUnrendered(c)

\* The svg of a request is text with at least one character.
NonEmptyText(svg) == svg.kind = "string" /\ svg.doc # << >>

\* C4: a request whose svg (file part or body field) is absent, empty or
\* not text is answered with 400 without the renderer being invoked, and
\* every request the renderer is invoked for carries non-empty text.
C4_AsStated ==
  \A c \in Calls :
    IsHttp(c) =>
      /\ ~NonEmptyText(SvgOf(req[c])) => RejectedUnrendered(c)
      /\ nRender[c] > 0 => NonEmptyText(args[c].svg)

\* C5: every response of POST /render that is not a success is JSON with
\* both fields error and type, with status 400 when the handler rejected
\* the request and 500 when the renderer failed.
C5_AsStated ==
  \A c \in Calls :
    \A i \in DOMAIN resp[c] :
      resp[c][i].status # 200 =>
        /\ resp[c][i].hasError
        /\ resp[c][i].hasType
        /\ resp[c][i].status = IF nRender[c] = 0 THEN 400 ELSE 500

\* The size a render of markup doc comes to when nothing but that markup
\* and a fresh page take part: the first svg element, laid out in a page as
\* the engine creates it, measured and rounded up.
OwnSize(doc) ==
  LET measured == MeasuredBox(BoundingClientRect(doc[QuerySelectorSvg(doc)],
                                                 BlankPage.viewport))
  IN [width |-> Ceil(measured.width), height |-> Ceil(measured.height)]

\* The success response that request r alone determines.
OwnResponse(r) ==
  LET a == HandlerArgs(r)
      size == OwnSize(a.svg.doc)
      width == (size.width \div SubPixel) * ScaleOf(r)
      height == (size.height \div SubPixel) * ScaleOf(r)
  IN Success(Returned([doc |-> a.svg.doc, type |-> OutputTypeOf(r),
                       quality |-> QualityOption(a),
                       width |-> width, height |-> height,
                       length |-> EncodedLength(width * height, QualityOption(a))],
                      size.width, size.height, OutputTypeOf(r), Absent))

\* C6: under every interleaving of concurrent requests, a success
\* response's body and its X-Image-Width, X-Image-Height, X-Image-Format and
\* Content-Type are those its own request's svg and options determine.
C6_NoCrossContamination ==
  \A c \in Calls :
    \A i \in DOMAIN resp[c] :
      resp[c][i].status = 200 => resp[c][i] = OwnResponse(req[c])

\* A later request with another svg and other options has been answered
\* while an earlier one is still rendering.
C6_Witness ==
  \E c, d \in Calls :
    /\ c < d
    /\ IsHttp(c) /\ IsHttp(d)
    /\ pc[c] = "screenshot"
    /\ pc[d] = "responded"
    /\ Len(resp[d]) = 1
    /\ resp[d][1].status = 200
    /\ SvgOf(req[c]) # SvgOf(req[d])
    /\ OutputTypeOf(req[c]) # OutputTypeOf(req[d])
    /\ ScaleOf(req[c]) # ScaleOf(req[d])

\* C7: a request has no response before its handler has finished and exactly
\* one after, and an unanswered request always has a step left; a success response is written only for a renderer call that
\* returned, and carries that call's buffer; after a renderer failure the
\* only response is the 500, with no image header and no image body.
C7_OneResponseAfterRender ==
  \A c \in Calls :
    /\ Len(resp[c]) = IF pc[c] = "responded" THEN 1 ELSE 0
    /\ IsHttp(c) /\ pc[c] # "responded" => ENABLED Step(c)
    /\ \A i \in DOMAIN resp[c] :
         /\ resp[c][i].status = 200 =>
              /\ outcome[c].kind = "result"
              /\ resp[c][i].body = outcome[c].buffer
              /\ resp[c][i].body # NoBuffer
         /\ outcome[c].kind = "error" =>
              /\ resp[c][i].status = 500
              /\ ~resp[c][i].hasImageHeaders
              /\ resp[c][i].body = NoBuffer

\* One request answered with the image and another, whose capture failed,
\* answered with a 500.
C7_Witness ==
  \E c, d \in Calls :
    /\ pc[c] = "responded" /\ resp[c][1].status = 200
    /\ pc[d] = "responded" /\ resp[d][1].status = 500
    /\ outcome[d].error.message = "screenshot failed"

\* The markup a call rendered has an svg root element.
RootIsSvg(doc) == doc # << >> /\ doc[1].tag = "svg"

\* C8: a render of markup whose root svg element has numeric width and
\* height attributes returns the ceiling of those attribute values as its
\* width and height, whatever their magnitude (taken here from one pixel
\* up, where the floor of one pixel plays no part).
C8_AsStated ==
  \A c \in Calls :
    /\ outcome[c].kind = "result"
    /\ RootIsSvg(args[c].svg.doc)
    /\ AttrValue(args[c].svg.doc[1], "width") >= Px(1)
    /\ AttrValue(args[c].svg.doc[1], "height") >= Px(1)
    => /\ outcome[c].width = Ceil(AttrValue(args[c].svg.doc[1], "width"))
       /\ outcome[c].height = Ceil(AttrValue(args[c].svg.doc[1], "height"))

\* The size of the page's viewport as the call's setViewport left it.
ViewportOf(c) == page[pageOf[c]].viewport

\* The call has evaluated its return statement and is in finally, its
\* locals and its page still there; the result is delivered as it is then.
Returning(c) == pc[c] = "close" /\ outcome[c].kind = "result"

\* C9: the width and height a render returns are the rounded-up measured
\* box, which is the size its viewport was set to; they are neither the
\* guess of extractSvgDimensions nor scaled by deviceScaleFactor.
C9_ResultIsMeasuredExtent ==
  \A c \in Calls :
    Returning(c) =>
      /\ outcome[c].width = Ceil(box[c].width)
      /\ outcome[c].height = Ceil(box[c].height)
      /\ outcome[c].width = ViewportOf(c).width
      /\ outcome[c].height = ViewportOf(c).height

\* A render returned a size that differs from the guess and from the
\* scaled size, with a scale factor other than 1.
C9_Witness ==
  \E c \in Calls :
    /\ Returning(c)
    /\ ScaleOption(args[c]) = 3
    /\ outcome[c].width # extractSvgDimensions(args[c].svg.doc).width
    /\ outcome[c].height # extractSvgDimensions(args[c].svg.doc).height
    /\ outcome[c].width = ViewportOf(c).width
    /\ ViewportOf(c).deviceScaleFactor = 3

WholePixels(x) == x % SubPixel = 0 /\ x >= Px(1)

\* The call is past its measurement.
Measured(c) == final[c] # NoBox

\* The call's setViewport has taken effect.
Fitted(c) ==
  \/ pc[c] \in {"screenshot", "writeOutput", "writeDebug"}
  \/ Returning(c)

\* C10: the width and height computed from a measured bounding box, those
\* the viewport is set to, and those a result reports are whole numbers of
\* pixels and at least 1.
C10_WholeAndPositive ==
  \A c \in Calls :
    /\ Measured(c) => WholePixels(final[c].width) /\ WholePixels(final[c].height)
    /\ Fitted(c) =>
         WholePixels(ViewportOf(c).width) /\ WholePixels(ViewportOf(c).height)
    /\ outcome[c].kind = "result" =>
         WholePixels(outcome[c].width) /\ WholePixels(outcome[c].height)

\* A render of an svg of width 0 and fractional height returned a width of
\* one pixel and a height of whole pixels above the measured one.
C10_Witness ==
  \E c \in Calls :
    /\ Returning(c)
    /\ args[c].svg.doc = DocZero
    /\ AttrValue(args[c].svg.doc[1], "width") = 0
    /\ outcome[c].width = Px(1)
    /\ box[c].height % SubPixel # 0
    /\ outcome[c].height = Px(2)

\* The markup the renderer was called with is text whose first element is
\* not an svg element.
NonSvgRoot(c) ==
  /\ args[c].svg.kind = "string"
  /\ args[c].svg.doc # << >>
  /\ ~RootIsSvg(args[c].svg.doc)

\* C11: a render of markup whose document root is not an svg element (an
\* svg nested in a div, say) never returns an image.
C11_AsStated ==
  \A c \in Calls : NonSvgRoot(c) => outcome[c].kind # "result"

HasSvg(doc) == \E i \in DOMAIN doc : doc[i].tag = "svg"

\* The first svg element of the markup in document order.
FirstSvg(doc) ==
  doc[CHOOSE i \in DOMAIN doc :
        doc[i].tag = "svg" /\ \A j \in 1..(i - 1) : doc[j].tag # "svg"]

PositiveValue(v, unit) ==
  IF v.kind = "number" /\ v.n > 0 THEN v.n
  ELSE IF v.kind = "string" /\ v.s # << >> /\ \A i \in DOMAIN v.s : IsDigit(v.s[i])
  THEN DigitsValue(v.s) * unit
  ELSE 0

\* The pixel density a request asks for: its deviceScaleFactor when that is
\* above 0, else 2.
RequestedScale(r) ==
  IF PositiveValue(r.deviceScaleFactor, 1) > 0
  THEN PositiveValue(r.deviceScaleFactor, 1)
  ELSE DefaultScale

\* The call holds a captured image.
Captured(c) == buffer[c] # NoBuffer

C14_AsStated ==
  \A c \in Calls :
    files[c] \subseteq (IF TruthyField(args[c].outputPath) THEN {OutputFile} ELSE {})

\* The renderer was invoked for request c.
Rendered(c) == IsHttp(c) /\ nRender[c] > 0

\* The quality a request is entitled to: its quality coerced to a number
\* when that is finite and within [0, 1], else 1.
QualityInRange(r) ==
  LET q == Parsed(r.quality, QualityOne)
  IN IF ~q.nan /\ 0 <= q.n /\ q.n <= QualityOne THEN q.n ELSE QualityOne

\* C15: the quality passed to the renderer is the request's when it is a
\* finite number within [0, 1] and the default 1 when it is absent,
\* non-finite or outside [0, 1].
C15_AsStated ==
  \A c \in Calls : Rendered(c) => args[c].quality = Num(QualityInRange(req[c]))

\* C16: the deviceScaleFactor passed to the renderer is the request's value
\* when that is a finite number above 0 and the default 2 in every other
\* case, so it is always above 0, and so is the density the viewport gets.
C16_ScalePositive ==
  \A c \in Calls :
    Rendered(c) =>
      /\ args[c].deviceScaleFactor = Num(RequestedScale(req[c]))
      /\ args[c].deviceScaleFactor.n > 0
      /\ Fitted(c) => ViewportOf(c).deviceScaleFactor > 0

\* A request with the deviceScaleFactor -1 is being rendered at density 2.
C16_Witness ==
  \E c \in Calls :
    /\ Rendered(c)
    /\ req[c].deviceScaleFactor = Num(-1)
    /\ args[c].deviceScaleFactor = Num(DefaultScale)
    /\ Fitted(c)
    /\ ViewportOf(c).deviceScaleFactor = DefaultScale

\* The call is waiting for page.setContent to settle.
Loading(c) == pc[c] = "setContent"

\* The bound the field v asks for: its value when above 0, else 30000.
BoundOf(v) == IF PositiveValue(v, 1) > 0 THEN PositiveValue(v, 1) ELSE DefaultTimeout

\* C17, as stated: the content-load wait of a request is bounded by its
\* field timeoutMs when that is a finite number above 0, and by 30000
\* otherwise.
C17_AsStated ==
  \A c \in Calls :
    Rendered(c) /\ Loading(c) => loadBound[c] = BoundOf(req[c].timeoutMs)

\* C17: the content-load wait of a request is bounded by its field timeout
\* when that is a finite number above 0, and by 30000 otherwise; the field
\* timeoutMs is not read.
C17_TimeoutFieldBounds ==
  \A c \in Calls :
    Rendered(c) =>
      /\ args[c].timeout = Num(BoundOf(req[c].timeout))
      /\ Loading(c) => loadBound[c] = BoundOf(req[c].timeout)

\* A request with timeout 5 and timeoutMs 7 is loading with the bound 5.
C17_Witness ==
  \E c \in Calls :
    /\ Rendered(c)
    /\ Loading(c)
    /\ req[c].timeout = Num(5)
    /\ req[c].timeoutMs = Num(7)
    /\ loadBound[c] = 5

\* Math.round(q * 100) of a quality q given in thousandths.
RoundedPercent(q) == (q + 5) \div 10

\* C18: the capture is given no quality for png and webp, and for jpeg the
\* quality round(quality * 100) for every quality in [0, 1], 0 included.
C18_AsStated ==
  \A c \in Calls :
    Captured(c) =>
      /\ buffer[c].type # Jpeg => buffer[c].quality = -1
      /\ /\ buffer[c].type = Jpeg
         /\ args[c].quality.kind = "number"
         /\ 0 <= args[c].quality.n
         /\ args[c].quality.n <= QualityOne
         => buffer[c].quality = RoundedPercent(args[c].quality.n)

\* Request c was answered with an image.
Answered(c) ==
  IsHttp(c) /\ pc[c] = "responded" /\ Len(resp[c]) = 1 /\ resp[c][1].status = 200

\* Requests c and d ask for jpeg and differ in quality only.
SameButQuality(c, d) ==
  /\ OutputTypeOf(req[c]) = Jpeg
  /\ [req[c] EXCEPT !.quality = Absent] = [req[d] EXCEPT !.quality = Absent]
  /\ req[c].quality.kind = "number" /\ req[d].quality.kind = "number"

\* C19: of two jpeg renders that differ in quality only, both within
\* [0, 1], the one with the lower quality has the buffer that is not longer.
C19_AsStated ==
  \A c, d \in Calls :
    /\ Answered(c) /\ Answered(d)
    /\ SameButQuality(c, d)
    /\ 0 <= req[c].quality.n
    /\ req[c].quality.n <= req[d].quality.n
    /\ req[d].quality.n <= QualityOne
    => resp[c][1].body.length <= resp[d][1].body.length

TimedOut(c) == outcome[c].error.name = "TimeoutError"

\* A call that is in finally with a TimeoutError has not measured, fitted
\* or captured, and one that delivered a TimeoutError has had its engine
\* instance closed.
TimedOutSkipsRest ==
  \A c \in Calls :
    /\ TimedOut(c) /\ pc[c] = "close" =>
         /\ box[c] = NoBox
         /\ final[c] = NoBox
         /\ buffer[c] = NoBuffer
         /\ ViewportOf(c) = BlankPage.viewport
    /\ TimedOut(c) /\ Delivered(c) => browser[handle[c]] = "closed"

\* A step that leaves a call with a TimeoutError is the settling of the
\* content load, whose bound is the call's timeout option or 30000, and it
\* takes the call to finally.
TimeoutOnlyFromLoad ==
  \A c \in Calls :
    TimedOut(c)' /\ ~TimedOut(c) =>
      /\ Loading(c)
      /\ loadBound[c] = TimeoutOption(args[c])
      /\ pc'[c] = "close"

EngineMissing(c) ==
  outcome[c].kind = "error" /\ outcome[c].error.message = "Puppeteer is not installed"

\* C21: when the rendering engine library cannot be obtained, the render
\* call fails with an error of kind ConfigurationError before any engine
\* instance is launched, and POST /render reports the failure as a 500
\* response whose type tag identifies a ConfigurationError.
C21_AsStated ==
  \A c \in Calls :
    EngineMissing(c) =>
      /\ ~Launched(c)
      /\ outcome[c].error.name = "ConfigurationError"
      /\ pc[c] = "responded" =>
           /\ resp[c] = << Failure(outcome[c].error) >>
           /\ resp[c][1].status = 500
           /\ resp[c][1].type = "ConfigurationError"

\* C22: every error raised inside the renderer, the handler or the fallback
\* transport, a failure to decode the data-URI payload and a failure to
\* parse an error response body included, surfaces to the caller as a failed
\* outcome: a call in which an error was caught sends nothing after a decode
\* failure and ends failed, and a failed render is answered with status 500.
C22_AsStated ==
  /\ "URIError" \in client.caught => client.nFetch = 0
  /\ client.pc = "done" /\ client.caught # {} => client.outcome.kind = "error"
  /\ \A c \in Calls :
       pc[c] = "responded" /\ outcome[c].kind = "error" =>
         resp[c][Len(resp[c])].status = 500

\* How far a renderer call or handler is: the position of its pc in program
\* order.
Progress(p) ==
  CHOOSE i \in 1..15 :
    << "idle", "init", "launch", "newPage", "writeHtml", "setContent", "evaluate",
       "setViewport", "screenshot", "writeOutput", "writeDebug", "close",
       "settled", "responded", "returned" >>[i] = p

\* The same for the call on the browser side.
ClientProgress(p) ==
  CHOOSE i \in 1..6 : << "idle", "toSvg", "fetch", "json", "blob", "done" >>[i] = p

\* The engine instances call c has launched.
OwnInstances(c) == {b \in Calls : browser[b] # "none" /\ LaunchedInstance(c) = b}

AtMostOnce ==
  /\ client.nFetch <= 1
  /\ \A c \in Calls : nRender[c] <= 1 /\ Cardinality(OwnInstances(c)) <= 1

\* Every step of a call moves it to a later point of the program: no step
\* is taken a second time, and an engine handle once set stays.
ForwardOnly ==
  /\ ClientProgress(client'.pc) >= ClientProgress(client.pc)
  /\ client' # client => ClientProgress(client'.pc) > ClientProgress(client.pc)
                         \/ client.pc = "idle"
  /\ \A c \in Calls :
       /\ Progress(pc'[c]) >= Progress(pc[c])
       /\ handle[c] # 0 => handle'[c] = handle[c]
       /\ pc'[c] = pc[c] =>
            /\ nRender'[c] = nRender[c]
            /\ browser'[LaunchedInstance(c)] = browser[LaunchedInstance(c)]
            /\ page'[CreatedPage(c)] = page[CreatedPage(c)]
            /\ box'[c] = box[c] /\ final'[c] = final[c] /\ buffer'[c] = buffer[c]

\* C23: no layer retries: one call of safariRenderToBlob sends at most one
\* HTTP request, one POST /render request calls the renderer at most once,
\* and one renderer call launches the engine at most once and takes each of
\* its steps (Load, Measure, Fit and Capture among them) at most once,
\* whatever fails.
C23_NoRetries == []AtMostOnce /\ [][ForwardOnly]_vars

\* A call on the browser side has failed because the render behind it
\* failed after its capture; each layer was entered once.
C23_Witness ==
  /\ client.pc = "done" /\ client.outcome.kind = "error"
  /\ client.response.status = 500
  /\ client.nFetch = 1 /\ nRender[1] = 1
  /\ Launched(1) /\ browser[handle[1]] = "closed"
  /\ outcome[1].kind = "error"
  /\ DebugFile \notin files[1] /\ OutputFile \notin files[1] /\ HtmlFile \in files[1]

\* fetch has resolved with a response in the call on the browser side.
Answer == client.response.status # 0

ClientSucceeded == client.pc = "done" /\ client.outcome.kind # "error"

\* C25 as stated: on success safariRenderToBlob delivers the result type of
\* the non-fallback path, the data URL that toPng and toJpeg return.
C25_AsStated == ClientSucceeded => client.outcome.kind = CanvasResultKind

\* C25: on success safariRenderToBlob delivers a Blob holding the image the
\* server sent, which is not the data URL of the non-fallback path; that
\* data URL is what blobToDataUrl, applied by the caller, makes of it.
C25_DeliversBlob ==
  ClientSucceeded =>
    /\ client.outcome.kind = "blob"
    /\ client.outcome.kind # CanvasResultKind
    /\ client.outcome.image = resp[1][1].body
    /\ blobToDataUrl(client.outcome).kind = CanvasResultKind
    /\ blobToDataUrl(client.outcome).image = resp[1][1].body

\* A call has resolved with the image of a render.
C25_Witness ==
  /\ ClientSucceeded
  /\ client.outcome.image.length > 0
  /\ client.outcome.image.type = Jpeg

\* svgDataUriToString has been applied to a data URI in the call on the
\* browser side.
Recovered == client.pc \notin {"idle", "toSvg"} /\ IsSvgDataUri(client.svgDataUri)

\* C26: for every markup m, markup with commas included, svgDataUriToString
\* applied to the data URI of m, its payload raw or percent-encoded, returns
\* exactly m, never a truncated prefix of it.
C26_AsStated == Recovered => client.svgString = client.markup

\* An option value the caller supplied, or the default d.
Supplied(v, d) == IF v.kind # "absent" THEN v ELSE d

\* C27: the body fetchFallbackRender posts holds exactly svg, outputType,
\* quality and deviceScaleFactor: the recovered markup, the requested
\* format, and for quality and deviceScaleFactor the caller's option
\* whenever one was supplied (quality 0 included) and the defaults 1 and 2
\* only when none was.
C27_AsStated ==
  client.nFetch > 0 =>
    /\ DOMAIN client.payload = {"svg", "outputType", "quality", "deviceScaleFactor"}
    /\ client.payload.svg = client.svgString
    /\ client.payload.outputType = Supplied(client.format, Str(Png))
    /\ client.payload.quality = Supplied(client.options.quality, Num(QualityOne))
    /\ client.payload.deviceScaleFactor =
         Supplied(client.options.deviceScaleFactor, Num(ClientDefaultScale))

\* C28: isSafari returns true exactly when the identifying string holds the
\* Safari signature and none of the signatures of the other browsers whose
\* strings hold 'Safari' too, and false for every identifying string of
\* Chrome, Firefox, Edge and Opera: it is true of Safari's strings only.
C28_AsStated ==
  client.detected # "unknown" =>
    (client.detected = "safari" <=> client.navigator.browser = "Safari")

\* Call c was made by a convenience function.
Converting(c) == req[c].origin \in Wrappers

RECURSIVE Named(_, _)
Named(tokens, name) ==
  IF tokens = << >> THEN << >>
  ELSE (IF Head(tokens).name = name THEN << Head(tokens).v >> ELSE << >>)
       \o Named(Tail(tokens), name)

\* The locals svgWidth and svgHeight of call c have been set.
Extracted(c) == dims[c] # NoBox

\* C30: extractSvgDimensions returns the values of the first width attribute
\* and the first height attribute of the text, not of an attribute whose
\* name ends in width or height such as stroke-width, and returns 300x150
\* when either attribute is absent.
C30_AsStated ==
  \A c \in Calls :
    Extracted(c) =>
      LET widths == Named(Tokens(args[c].svg.doc), "width")
          heights == Named(Tokens(args[c].svg.doc), "height")
      IN dims[c] = IF widths # << >> /\ heights # << >>
                   THEN [width |-> widths[1], height |-> heights[1]]
                   ELSE [width |-> Px(DefaultWidth), height |-> Px(DefaultHeight)]

\* The page of call c holds the document of the call's svg.
Loaded(c) == pageOf[c] # 0 /\ page[pageOf[c]].content = args[c].svg.doc

\* The viewport of the page of call c has the size the call computed.
Resized(c) ==
  /\ pageOf[c] # 0
  /\ page[pageOf[c]].viewport.width = final[c].width
  /\ page[pageOf[c]].viewport.height = final[c].height

\* A step is awaited only when the steps before it have settled.
StartsAfter ==
  \A c \in Calls :
    /\ pc[c] \in {"newPage", "writeHtml", "setContent", "evaluate", "setViewport",
                  "screenshot", "writeOutput", "writeDebug", "close"}
         => Launched(c) /\ browser[handle[c]] = "open"
    /\ pc[c] \in {"newPage", "writeHtml", "setContent"}
         => ~Loaded(c) /\ ~Measured(c) /\ ~Captured(c)
    /\ pc[c] = "evaluate" => Loaded(c) /\ ~Measured(c) /\ ~Captured(c)
    /\ pc[c] = "setViewport" => Loaded(c) /\ Measured(c) /\ ~Captured(c)
    /\ pc[c] = "screenshot" => Loaded(c) /\ Measured(c) /\ Resized(c) /\ ~Captured(c)
    /\ Captured(c) => Loaded(c) /\ Measured(c) /\ Resized(c)
    /\ Launched(c) /\ browser[handle[c]] = "closed"
         => pc[c] \in {"settled", "responded", "returned"}

\* The effect of a step comes about in the transition that settles that
\* step's await and in no other, so no transition has the effects of two.
OneStepAtATime ==
  \A c \in Calls :
    /\ ~Launched(c) /\ Launched(c)' => pc[c] = "launch" /\ pc'[c] = "newPage"
    /\ ~Loaded(c) /\ Loaded(c)' => pc[c] = "setContent" /\ pc'[c] = "evaluate"
    /\ ~Measured(c) /\ Measured(c)' => pc[c] = "evaluate" /\ pc'[c] = "setViewport"
    /\ pc[c] # "evaluate" /\ Loaded(c) /\ Loaded(c)'
         => page'[pageOf[c]].viewport = page[pageOf[c]].viewport
            \/ (pc[c] = "setViewport" /\ pc'[c] = "screenshot")
    /\ ~Captured(c) /\ Captured(c)'
         => pc[c] = "screenshot" /\ pc'[c] \in {"writeOutput", "writeDebug"}
    /\ Launched(c) /\ browser[handle[c]] = "open" /\ browser'[handle[c]] = "closed"
         => pc[c] = "close" /\ pc'[c] = "settled"

\* C31: within one render call the steps run one after another in the
\* order Launch, Load, Measure, Fit, Capture, Close: the measurement starts
\* only after the load has settled, the viewport is resized only after the
\* measurement, the capture starts only after the resize has completed, and
\* no two steps of the call are in progress at once.
C31_StepsInOrder == []StartsAfter /\ [][OneStepAtATime]_vars

\* A render has gone through every step and is about to close its engine:
\* its page is loaded and resized away from its first size, and the image
\* is captured.
C31_Witness ==
  \E c \in Calls :
    /\ Returning(c)
    /\ Loaded(c) /\ Measured(c) /\ Resized(c) /\ Captured(c)
    /\ page[pageOf[c]].viewport.width # BlankPage.viewport.width
    /\ browser[handle[c]] = "open"

\* What call c delivers is what its steps came to: a capture that succeeded
\* goes out as the result once the debug copy was tried, and closing the
\* engine leaves the pending result or error as it is.
FirstOutcomeKept ==
  \A c \in Calls :
    /\ pc[c] = "writeDebug" /\ pc'[c] # pc[c] => outcome'[c].kind = "result"
    /\ pc[c] = "close" /\ pc'[c] # pc[c] => outcome'[c] = outcome[c]

\* C32: a render whose Launch, Load, Measure, Fit and Capture all succeed,
\* with no outputPath requested, delivers the RenderResult, and when a step
\* fails the error delivered is that of the first step that failed: a
\* failure while closing the engine or writing an auxiliary file never
\* replaces a successful capture or an earlier error.
C32_AsStated == [][FirstOutcomeKept]_vars

\* The paths of the files call c has written under temp.
OwnPaths(c) == { PathOf(c, f) : f \in files[c] \ {OutputFile} }

\* C33: two render calls in flight at the same time never write to the same
\* path: every file a render writes, a caller-chosen outputPath apart, has
\* a path of that call's own.
C33_AsStated ==
  \A c, d \in Calls :
    c # d /\ InFlight(c) /\ InFlight(d) => OwnPaths(c) \cap OwnPaths(d) = {}

\* C34: the counter that GET /stats reports as totalRequests equals the
\* number of HTTP requests the server has received since its start: every
\* request, each POST /render and each GET /health included, adds one to it.
C34_AsStated ==
  /\ requestCount = traffic.received
  /\ traffic.totalRequests # -1 => traffic.totalRequests = traffic.receivedThen

\* The format a request asks for: png when outputType is absent or empty,
\* and the text of outputType in lower case otherwise.
AskedFormat(r) ==
  IF r.outputType.kind = "string" /\ r.outputType.s # << >>
  THEN ToLowerCase(r.outputType.s) ELSE Png

\* The request's outputType is text or absent.
TextualType(r) == r.outputType.kind \in {"string", "absent"}

\* C35: POST /render compares outputType without regard to case: a request
\* with an svg whose outputType in lower case is png, jpeg or webp, or is
\* absent or empty, is rendered, in that lower-case format (png when absent
\* or empty); and on every success response the format of the capture, the
\* suffix of Content-Type and X-Image-Format are one and the same lowercase
\* png, jpeg or webp.
C35_LowerCasedFormat ==
  \A c \in Calls :
    IsHttp(c) /\ TextualType(req[c]) =>
      /\ /\ pc[c] = "responded"
         /\ Truthy(SvgOf(req[c]))
         /\ AskedFormat(req[c]) \in SupportedTypes
         => /\ nRender[c] = 1
            /\ args[c].outputType = Str(AskedFormat(req[c]))
      /\ \A i \in DOMAIN resp[c] :
           resp[c][i].status = 200 =>
             /\ resp[c][i].imageFormat \in SupportedTypes
             /\ resp[c][i].imageFormat = AskedFormat(req[c])
             /\ resp[c][i].contentType = <<"image/">> \o resp[c][i].imageFormat
             /\ resp[c][i].body.type = resp[c][i].imageFormat

\* A request with the outputType PNG or Jpeg was answered with one image,
\* of that format in lower case.
C35_Witness ==
  \E c \in Calls :
    /\ IsHttp(c)
    /\ req[c].outputType \in {Str(<<"P", "N", "G">>), Str(<<"J", "p", "e", "g">>)}
    /\ Len(resp[c]) = 1
    /\ resp[c][1].status = 200
    /\ resp[c][1].imageFormat = ToLowerCase(req[c].outputType.s)
    /\ resp[c][1].body.type = resp[c][1].imageFormat

=============================================================================
